---------------------------- MODULE Spec2Model ----------------------------
(***************************************************************************)
(* A model of Gui-scraper.py: the bounded URL collector, the recursive     *)
(* sitemap resolution, the page extractor and the worker-pool crawl.       *)
(*                                                                         *)
(* A URL is a tuple of one-character strings, so that Python's substring   *)
(* test ("fragment in url") and str.lower() are computed, not assumed.     *)
(***************************************************************************)
EXTENDS Integers, Sequences, FiniteSets, TLC

(***************************************************************************)
(* Bounds of the model.                                                    *)
(***************************************************************************)
MaxLimit == 4
MaxUrls == 4
MaxNew == 2
MaxLeafLen == 3
MaxTags == 2
MaxDepth == 4
MaxTasks == 2
MaxWorkers == 2
MaxGuiUrls == 2
MaxGuiWorkers == 1

VARIABLES
    \* URLCollector (src 26-50)
    limit,        \* URLCollector.limit
    urls,         \* URLCollector.urls
    last_add,     \* observation: the last add_urls call (argument, urls before, return)
    \* get_allowed_urls / get_sitemap_urls (src 56-134)
    entry,        \* sitemap_or_url
    disallowed,   \* the list of disallowed fragments
    web,          \* what a GET of each sitemap URL answers
    stack,        \* the active calls of get_sitemap_urls, innermost last
    fetched,      \* observation: the GETs issued, with len(collector.urls) at that time
    last_locs,    \* observation: the local 'urls' (src 103) of the last url-set
    dpc,          \* position in get_allowed_urls
    \* the shared events (src 367-369)
    pause_event,  \* threading.Event: set = paused
    stop_event,   \* threading.Event: set = stop requested
    is_paused,    \* ScraperGUI.is_paused
    at_stop,      \* observation: how far each call was when on_stop ran
    \* scrape_all_urls (src 252-306)
    total,        \* len(urls)
    workers,      \* max_workers of the pool
    js_enabled,   \* render with Playwright instead of requests.get
    task,         \* the scrape_content call of each URL, by position in urls
    mpc,          \* position of the thread that runs scrape_all_urls
    yieldq,       \* the futures as_completed has still to yield, in order
    cur,          \* the future of the running loop iteration
    i,            \* the loop's enumerate counter
    results,      \* the local 'results'
    scraped_data, \* what data_callback has appended (src 580-582)
    progress,     \* observation: the progress_callback calls made
    comp_order,   \* observation: the tasks in the order they completed
    early,        \* observation: the tasks finished when as_completed started
    consumed,     \* observation: the futures whose result the loop has taken
    broke,        \* observation: the loop found stop_event set at src 284 (and broke)
    \* ScraperGUI (src 309-731)
    start_button, \* state of the "Commencer" button
    bpc,          \* position of the thread that runs background_task
    gpc,          \* position of the Tk thread inside on_save / on_export_json
    data_lock,    \* ScraperGUI.data_lock: who holds it
    csv,          \* what background_task has written to csv_filename (src 599)
    last_start,   \* observation: the values the last on_start read, and its error
    \* driver of the unit under check
    phase         \* which operation sequence the behaviour runs

collectorVars == <<limit, urls, last_add>>
discoveryVars == <<entry, disallowed, web, stack, fetched, last_locs, dpc>>
eventVars == <<pause_event, stop_event, is_paused, at_stop>>
guiVars == <<start_button, bpc, gpc, data_lock, csv, last_start>>
crawlVars == <<total, workers, js_enabled, task, mpc, yieldq, cur, i, results,
               scraped_data, progress, comp_order, early, consumed, broke>>
vars == <<start_button, bpc, gpc, data_lock, csv, last_start,
          limit, urls, last_add, entry, disallowed, web, stack, fetched,
          last_locs, dpc, pause_event, stop_event, is_paused, at_stop, total, workers,
          js_enabled, task, mpc, yieldq, cur, i, results, scraped_data,
          progress, comp_order, early, consumed, broke, phase>>

(***************************************************************************)
(* Sequences helpers.                                                      *)
(***************************************************************************)
SeqsUpTo(S, n) == UNION {[1..k -> S] : k \in 0..n}

\* Python's seq[:n] for n >= 0
Take(s, n) == SubSeq(s, 1, IF n < Len(s) THEN n ELSE Len(s))

(***************************************************************************)
(* URLCollector.add_urls (src 34-50): the new urls and the return value.   *)
(***************************************************************************)
NoCall == [arg |-> <<>>, pre |-> <<>>, ret |-> TRUE, called |-> FALSE]

\* a bug: one URL too many is let in
add_urls_off_by_one(lim, us, new_urls) ==
    IF lim <= 0
    THEN [urls |-> us \o new_urls, ret |-> TRUE]
    ELSE LET remaining == lim - Len(us) IN
         IF remaining < 0
         THEN [urls |-> us, ret |-> FALSE]
         ELSE IF Len(new_urls) > remaining + 1
              THEN [urls |-> us \o Take(new_urls, remaining + 1), ret |-> FALSE]
              ELSE [urls |-> us \o new_urls, ret |-> TRUE]

\* a bug: the "remaining <= 0" test (src 43-44) left out
add_urls_no_full_check(lim, us, new_urls) ==
    IF lim <= 0
    THEN [urls |-> us \o new_urls, ret |-> TRUE]
    ELSE LET remaining == lim - Len(us) IN
         IF Len(new_urls) > remaining
         THEN [urls |-> us \o Take(new_urls, remaining), ret |-> FALSE]
         ELSE [urls |-> us \o new_urls, ret |-> TRUE]

\* a bug: "limit <= 0" written as "limit < 0"
add_urls_limit_zero_truncates(lim, us, new_urls) ==
    LET remaining == lim - Len(us) IN
    IF lim < 0
    THEN [urls |-> us \o new_urls, ret |-> TRUE]
    ELSE IF remaining <= 0
         THEN [urls |-> us, ret |-> FALSE]
         ELSE IF Len(new_urls) > remaining
              THEN [urls |-> us \o Take(new_urls, remaining), ret |-> FALSE]
              ELSE [urls |-> us \o new_urls, ret |-> TRUE]

add_urls(lim, us, new_urls) ==
    IF lim <= 0
    THEN [urls |-> us \o new_urls, ret |-> TRUE]
    ELSE LET remaining == lim - Len(us) IN
         IF remaining <= 0
         THEN [urls |-> us, ret |-> FALSE]
         ELSE IF Len(new_urls) > remaining
              THEN [urls |-> us \o Take(new_urls, remaining), ret |-> FALSE]
              ELSE [urls |-> us \o new_urls, ret |-> TRUE]

\* collector.add_urls(new_urls) as a state change of the collector
CollectorAdd(new_urls) ==
    LET r == add_urls(limit, urls, new_urls) IN
    /\ urls' = r.urls
    /\ last_add' = [arg |-> new_urls, pre |-> urls, ret |-> r.ret, called |-> TRUE]
    /\ UNCHANGED limit

(***************************************************************************)
(* URLs, fragments and sitemap documents.                                  *)
(***************************************************************************)
Digits == <<"1", "2", "3", "4", "5", "6">>

Root == <<"r", ".", "x", "m", "l">>
K1 == <<"a", ".", "x", "m", "l">>
K2 == <<"b", ".", "x", "m", "l">>
K3 == <<"c", ".", "x", "m", "l">>
\* a page whose name ends in upper-case ".XML"
UpperPage == <<"p", ".", "X", "M", "L">>
\* a <sitemap> element without a <loc> child
NoLoc == <<"<no loc>">>

\* str.lower() on the characters the model uses
LowerChar(c) ==
    CASE c = "X" -> "x"
      [] c = "M" -> "m"
      [] c = "L" -> "l"
      [] OTHER -> c

lower(u) == [p \in 1..Len(u) |-> LowerChar(u[p])]

\* Python's "f in u" on strings: f occurs at some offset of u
str_in(f, u) ==
    \E off \in 0..(Len(u) - Len(f)) : SubSeq(u, off + 1, off + Len(f)) = f

\* a bug: any(...) written as all(...)
is_allowed_all(url, disallowed_fragments) ==
    ~ \A k \in 1..Len(disallowed_fragments) : str_in(disallowed_fragments[k], url)

\* a bug: the fragment is only looked for at the start of the URL
is_allowed_prefix(url, disallowed_fragments) ==
    ~ \E k \in 1..Len(disallowed_fragments) :
         LET f == disallowed_fragments[k] IN
         Len(f) <= Len(url) /\ SubSeq(url, 1, Len(f)) = f

\* is_allowed (src 52-54)
is_allowed(url, disallowed_fragments) ==
    ~ \E k \in 1..Len(disallowed_fragments) : str_in(disallowed_fragments[k], url)

\* A document as get_sitemap_urls reads it after the parse (src 80-103): what
\* kind it is, and the stripped <loc> texts in document order -- for an index one
\* item per <sitemap> element (NoLoc when it has no <loc>), for a url-set one per
\* <loc>.
Doc(kind, items) == [kind |-> kind, items |-> items]
FailDoc == Doc("fail", <<>>)      \* the GET raises requests.RequestException
OtherDoc == Doc("other", <<>>)    \* neither a sitemapindex nor a urlset

\* the page URLs a leaf lists: <c,1>, <c,2>, ...
LeafLocs(c, n) == [p \in 1..n |-> <<c, Digits[p]>>]
UrlSets(c) == {Doc("urlset", LeafLocs(c, n)) : n \in 0..MaxLeafLen}

RootDocs ==
    {Doc("index", t) : t \in (SeqsUpTo({K1, K2, NoLoc}, MaxTags) \ {<<>>})}
      \cup {FailDoc, OtherDoc, Doc("urlset", LeafLocs("a", MaxLeafLen))}
K1Docs ==
    UrlSets("a") \cup {FailDoc, OtherDoc, Doc("index", <<K3>>), Doc("index", <<K3, K2>>)}
K2Docs == UrlSets("b") \cup {FailDoc}
K3Docs == UrlSets("c") \cup {FailDoc}

SitemapURLs == {Root, K1, K2, K3, UpperPage}

Webs ==
    {[u \in SitemapURLs |->
        CASE u = Root -> d0 [] u = K1 -> d1 [] u = K2 -> d2 [] u = K3 -> d3
          [] OTHER -> OtherDoc] :
        d0 \in RootDocs, d1 \in K1Docs, d2 \in K2Docs, d3 \in K3Docs}

EmptyWeb == [u \in SitemapURLs |-> OtherDoc]

DisallowedLists ==
    { <<>>, << <<"a", "2">> >>, << <<"1">>, <<"b">> >>, << <<"z">> >> }

SingleEntries == {<<"a", "1">>, <<"b", "2">>, UpperPage}

(***************************************************************************)
(* get_allowed_urls and get_sitemap_urls (src 56-134), one call frame per  *)
(* active call of get_sitemap_urls.                                        *)
(***************************************************************************)
Frame(url, pc, tags, idx) == [url |-> url, pc |-> pc, tags |-> tags, idx |-> idx]

Pop(st) == SubSeq(st, 1, Len(st) - 1)
Top(st) == st[Len(st)]
ReplaceTop(st, f) == [st EXCEPT ![Len(st)] = f]

\* a bug: >= written as >
limit_reached_strict(lim, us) == lim > 0 /\ Len(us) > lim

\* "collector.limit > 0 and len(collector.urls) >= collector.limit" (src 63, 89)
limit_reached(lim, us) == lim > 0 /\ Len(us) >= lim

\* the list comprehension of src 105
allowed_of(locs, dis) == SelectSeq(locs, LAMBDA u : is_allowed(u, dis))

DiscoveryIdle ==
    /\ entry = <<>>
    /\ disallowed = <<>>
    /\ web = EmptyWeb
    /\ stack = <<>>
    /\ fetched = <<>>
    /\ last_locs = <<>>
    /\ dpc = "idle"

\* get_allowed_urls, src 126-133: the collector is made, then the sitemap is
\* resolved or the single URL is added
GetAllowedUrlsCall ==
    /\ phase = "discovery"
    /\ dpc = "start"
    /\ IF str_in(<<".", "x", "m", "l">>, lower(entry))
       THEN /\ stack' = <<Frame(entry, "enter", <<>>, 1)>>
            /\ dpc' = "resolving"
            /\ UNCHANGED collectorVars
       ELSE /\ IF is_allowed(entry, disallowed)
               THEN CollectorAdd(<<entry>>)
               ELSE UNCHANGED collectorVars
            /\ dpc' = "done"
            /\ UNCHANGED stack
    /\ UNCHANGED <<entry, disallowed, web, fetched, last_locs, phase>>
    /\ UNCHANGED <<eventVars, crawlVars, guiVars>>

\* a bug: the RequestException not caught; it ends every active call
after_failure_raises(st) == <<>>

\* src 73-78: the exception is caught and the call returns []
after_failure(st) == Pop(st)

\* get_sitemap_urls, src 63-117 up to the loop over the sub-sitemaps
SitemapEnter ==
    /\ phase = "discovery"
    /\ dpc = "resolving"
    /\ stack # <<>>
    /\ Top(stack).pc = "enter"
    /\ LET f == Top(stack)
           doc == IF f.url \in DOMAIN web THEN web[f.url] ELSE FailDoc
       IN
       IF limit_reached(limit, urls)
       THEN \* src 63-64
            /\ stack' = Pop(stack)
            /\ UNCHANGED <<collectorVars, fetched, last_locs>>
       ELSE /\ fetched' = Append(fetched, [url |-> f.url, have |-> Len(urls)])
            /\ CASE doc.kind = "fail" ->
                      \* src 73-78
                      /\ stack' = after_failure(stack)
                      /\ UNCHANGED <<collectorVars, last_locs>>
                 [] doc.kind = "index" ->
                      \* src 83-87
                      /\ stack' = ReplaceTop(stack, Frame(f.url, "loop", doc.items, 1))
                      /\ UNCHANGED <<collectorVars, last_locs>>
                 [] doc.kind = "urlset" ->
                      \* src 100-110
                      /\ last_locs' = doc.items
                      /\ CollectorAdd(allowed_of(doc.items, disallowed))
                      /\ stack' = Pop(stack)
                 [] OTHER ->
                      \* src 112-117
                      /\ stack' = Pop(stack)
                      /\ UNCHANGED <<collectorVars, last_locs>>
    /\ UNCHANGED <<entry, disallowed, web, dpc, phase>>
    /\ UNCHANGED <<eventVars, crawlVars, guiVars>>

\* a variant with cycle detection, which the code does not have: a sitemap
\* that is being resolved is not entered again
descends_unless_active(sub_sitemap_url, st) ==
    \A k \in 1..Len(st) : st[k].url # sub_sitemap_url

\* src 93-96: every loc of the index is resolved by a recursive call
descends(sub_sitemap_url, st) == TRUE

\* one iteration of "for tag in sitemap_tags" (src 88-96), or its end (src 97).
\* The recursive call of src 96 needs one more frame: beyond MaxDepth active
\* calls the interpreter raises RecursionError, which no call catches.
SitemapLoop ==
    /\ phase = "discovery"
    /\ dpc = "resolving"
    /\ stack # <<>>
    /\ Top(stack).pc = "loop"
    /\ LET f == Top(stack) IN
       IF f.idx > Len(f.tags) \/ limit_reached(limit, urls)
       THEN stack' = Pop(stack) /\ UNCHANGED dpc
       ELSE LET next == Frame(f.url, "loop", f.tags, f.idx + 1) IN
            IF f.tags[f.idx] # NoLoc /\ descends(f.tags[f.idx], stack)
            THEN IF Len(stack) >= MaxDepth
                 THEN stack' = <<>> /\ dpc' = "raised"
                 ELSE /\ stack' = Append(ReplaceTop(stack, next),
                                         Frame(f.tags[f.idx], "enter", <<>>, 1))
                      /\ UNCHANGED dpc
            ELSE stack' = ReplaceTop(stack, next) /\ UNCHANGED dpc
    /\ UNCHANGED <<collectorVars, entry, disallowed, web, fetched, last_locs, phase>>
    /\ UNCHANGED <<eventVars, crawlVars, guiVars>>

\* get_allowed_urls returns collector.urls (src 134)
GetAllowedUrlsReturn ==
    /\ phase = "discovery"
    /\ dpc = "resolving"
    /\ stack = <<>>
    /\ dpc' = "done"
    /\ UNCHANGED <<collectorVars, entry, disallowed, web, stack, fetched, last_locs, phase>>
    /\ UNCHANGED <<eventVars, crawlVars, guiVars>>


(***************************************************************************)
(* The shared events and the handlers that change them (src 367-369,       *)
(* 624-647).                                                               *)
(***************************************************************************)
\* ScraperGUI.__init__ (src 309-377): no on_start yet, nothing written
NoStart ==
    [called |-> FALSE, empty |-> FALSE, min_delay |-> 0, max_delay |-> 0,
     workers |-> 1, limit |-> 0, error |-> "none"]

NoCsv == [written |-> FALSE, rows |-> <<>>]

GuiFresh ==
    /\ start_button = "normal"
    /\ bpc = "none"
    /\ gpc = "idle"
    /\ data_lock = "free"
    /\ csv = NoCsv
    /\ last_start = NoStart

\* no stop has been asked for
NoStop == [asked |-> FALSE, started |-> {}, answered |-> {}]

EventsClear ==
    /\ pause_event = FALSE
    /\ stop_event = FALSE
    /\ is_paused = FALSE
    /\ at_stop = NoStop

(***************************************************************************)
(* scrape_content (src 136-250), one call per URL.  A call's pc names the  *)
(* source line it is about to run.                                         *)
(*   hist: whether pause_event was set when the call began ("none" if not) *)
(*         and, if so, whether it has stayed set since ("held"), has been  *)
(*         cleared ("cleared") or cleared and set again ("reset").         *)
(***************************************************************************)
Tasks == 1..total

NewTask ==
    [pc |-> "new", res |-> "none", net |-> "none", entry_stop |-> FALSE,
     hist |-> "none", net_paused |-> FALSE, left |-> "none", tries |-> 0]

CrawlIdle ==
    /\ total = 0
    /\ workers = 1
    /\ js_enabled = FALSE
    /\ task = <<>>
    /\ mpc = "idle"
    /\ yieldq = <<>>
    /\ cur = 0
    /\ i = 0
    /\ results = <<>>
    /\ scraped_data = <<>>
    /\ progress = <<>>
    /\ comp_order = <<>>
    /\ early = {}
    /\ consumed = <<>>
    /\ broke = FALSE

\* hist, net_paused and left (the position the call returned from) are recorded
\* in the behaviours that follow one call
Observed == phase = "extract"

Running(t) == task[t].pc \notin {"new", "queued", "done"}
Done(t) == task[t].pc = "done"

\* as_completed has installed its waiter: a future that completes is handed to it
WaiterInstalled == mpc \in {"wait", "process", "callback"}

\* a bug: the test of src 147-148 left out
first_stop_check_missing(stop) == "s151"

\* src 147-148: where the call goes from its first test of stop_event
first_stop_check(stop) == IF stop THEN "done" ELSE "s151"

\* a bug: the pause loop left out
pause_check_missing(pause, blocked, free) == free

\* src 151 and 231: "while pause_event.is_set()"
pause_check(pause, blocked, free) == IF pause THEN blocked ELSE free

\* a bug: stop_event not looked at
stop_check_missing(stop, free) == free

\* src 153-154, 229-230 and 233-234: "if stop_event.is_set(): return {}"
stop_check(stop, free) == IF stop THEN "done" ELSE free

\* the call of task t returns (or raises): its future completes
Complete(t, res, tk) ==
    /\ task' = [tk EXCEPT ![t].pc = "done", ![t].res = res,
                          ![t].left = IF Observed THEN tk[t].pc ELSE "none"]
    /\ comp_order' = Append(comp_order, t)
    /\ yieldq' = IF WaiterInstalled THEN Append(yieldq, t) ELSE yieldq

Goto(t, pc, tk) ==
    /\ task' = [tk EXCEPT ![t].pc = pc]
    /\ UNCHANGED <<comp_order, yieldq>>

Step(t, pc, tk) == IF pc = "done" THEN Complete(t, "empty", tk) ELSE Goto(t, pc, tk)

TaskFrame ==
    UNCHANGED <<guiVars, collectorVars, discoveryVars, eventVars, total, workers, js_enabled,
                mpc, cur, i, results, scraped_data, progress, early, consumed,
                broke, phase>>

\* a bug: the pool runs one call more than max_workers
pool_has_room_one_more(running, w) == running <= w

\* src 274: ThreadPoolExecutor(max_workers=workers) has a thread that is free
pool_has_room(running, w) == running < w

\* a free worker thread of the pool takes the oldest queued call and runs it up to
\* its first test of stop_event (src 147)
TaskStart(t) ==
    /\ task[t].pc = "queued"
    /\ \A u \in Tasks : u < t => task[u].pc # "queued"
    /\ pool_has_room(Cardinality({u \in Tasks : Running(u)}), workers)
    /\ Step(t, first_stop_check(stop_event),
            [task EXCEPT ![t].entry_stop = stop_event,
                         ![t].hist = IF Observed /\ pause_event THEN "held" ELSE "none"])
    /\ TaskFrame

\* src 151: the test of the first pause loop
TaskPause1(t) ==
    /\ task[t].pc = "s151"
    /\ Step(t, pause_check(pause_event, "s153", "fetch"), task)
    /\ TaskFrame

\* src 152-154: after the sleep, the test of stop_event inside the loop
TaskPause1Stop(t) ==
    /\ task[t].pc = "s153"
    /\ Step(t, stop_check(stop_event, "s151"), task)
    /\ TaskFrame

\* src 163 or 181: the page is asked for
TaskFetch(t) ==
    /\ task[t].pc = "fetch"
    /\ Goto(t, "inflight",
            [task EXCEPT ![t].net = IF js_enabled THEN "render" ELSE "get",
                         ![t].tries = @ + 1,
                         ![t].net_paused = Observed /\ pause_event])
    /\ TaskFrame

\* src 164-226: the answer.  The fetch fails and {} is returned (src 171-176,
\* 187-192), or the page is parsed; the parsing can raise (urljoin, src 207).
TaskAnswer(t) ==
    /\ task[t].pc = "inflight"
    /\ \/ Goto(t, "s229", task)
       \/ Complete(t, "empty", task)
       \/ Complete(t, "exc", task)
    /\ TaskFrame

\* src 229-230
TaskStop2(t) ==
    /\ task[t].pc = "s229"
    /\ Step(t, stop_check(stop_event, "s231"), task)
    /\ TaskFrame

\* src 231: the test of the second pause loop
TaskPause2(t) ==
    /\ task[t].pc = "s231"
    /\ Step(t, pause_check(pause_event, "s233", "delay"), task)
    /\ TaskFrame

\* src 232-234
TaskPause2Stop(t) ==
    /\ task[t].pc = "s233"
    /\ Step(t, stop_check(stop_event, "s231"), task)
    /\ TaskFrame

\* src 237-250: the delay, then the record is returned
TaskReturn(t) ==
    /\ task[t].pc = "delay"
    /\ Complete(t, "record", task)
    /\ TaskFrame

scrape_content(t) ==
    \/ TaskStart(t)
    \/ TaskPause1(t)
    \/ TaskPause1Stop(t)
    \/ TaskFetch(t)
    \/ TaskAnswer(t)
    \/ TaskStop2(t)
    \/ TaskPause2(t)
    \/ TaskPause2Stop(t)
    \/ TaskReturn(t)

(***************************************************************************)
(* on_pause and on_stop (src 624-647), run by the GUI thread.              *)
(***************************************************************************)
\* what a running call has seen of pause_event, after it changes to p
HistAfter(h, p) ==
    CASE h = "held" /\ ~p -> "cleared"
      [] h = "cleared" /\ p -> "reset"
      [] OTHER -> h

OnPause ==
    /\ phase \in {"crawl", "extract", "gui"}
    /\ gpc = "idle"
    /\ is_paused' = ~is_paused
    /\ pause_event' = ~is_paused
    /\ task' = [t \in DOMAIN task |->
                  IF Observed /\ Running(t)
                  THEN [task[t] EXCEPT !.hist = HistAfter(@, ~is_paused)]
                  ELSE task[t]]
    /\ UNCHANGED <<guiVars, collectorVars, discoveryVars, stop_event, at_stop, total, workers,
                   js_enabled, mpc, yieldq, cur, i, results, scraped_data, progress,
                   comp_order, early, consumed, broke, phase>>

\* the calls that have asked for their page, and those that have had the answer
FetchStarted == {t \in DOMAIN task : task[t].net # "none"}
FetchAnswered == {t \in FetchStarted : task[t].pc # "inflight"}

StopSnapshot == [asked |-> TRUE, started |-> FetchStarted, answered |-> FetchAnswered]

\* a bug: the handler logs the request and sets no event
OnStopSetsNothing ==
    /\ phase \in {"crawl", "extract", "gui"}
    /\ gpc = "idle"
    /\ ~at_stop.asked
    /\ at_stop' = StopSnapshot
    /\ UNCHANGED <<guiVars, collectorVars, discoveryVars, pause_event, stop_event,
                   is_paused, crawlVars, phase>>

\* on_stop (src 639-647).  self.executor is never assigned, so the branch of
\* src 645-647 does not run.
OnStop ==
    /\ phase \in {"crawl", "extract", "gui"}
    /\ gpc = "idle"
    /\ ~stop_event
    /\ stop_event' = TRUE
    /\ at_stop' = StopSnapshot
    /\ UNCHANGED <<guiVars, collectorVars, discoveryVars, pause_event, is_paused,
                   crawlVars, phase>>

(***************************************************************************)
(* scrape_all_urls (src 252-306).                                          *)
(***************************************************************************)
MainFrame ==
    UNCHANGED <<guiVars, collectorVars, discoveryVars, eventVars, total, workers, js_enabled,
                phase>>

\* all orders in which the elements of a set can be listed
Orders(S) == {q \in [1..Cardinality(S) -> S] : \A a \in S : \E k \in DOMAIN q : q[k] = a}

\* src 264-280: every URL is submitted to the pool
ScrapeAllUrlsCall ==
    /\ phase \in {"crawl", "extract"} \/ bpc = "crawl"
    /\ mpc = "idle"
    /\ IF total = 0
       THEN /\ mpc' = "returned"
            /\ UNCHANGED task
       ELSE /\ mpc' = "submitted"
            /\ task' = [t \in Tasks |-> [NewTask EXCEPT !.pc = "queued"]]
    /\ UNCHANGED <<yieldq, cur, i, results, scraped_data, progress, comp_order,
                   early, consumed, broke>>
    /\ MainFrame

\* the first next() of as_completed (src 282): the futures already finished are
\* yielded first, in the order of a set; the others as they complete
AsCompletedStart ==
    /\ mpc = "submitted"
    /\ early' = {t \in Tasks : Done(t)}
    /\ yieldq' \in Orders(early')
    /\ i' = 0
    /\ mpc' = "wait"
    /\ UNCHANGED <<task, cur, results, scraped_data, progress, comp_order,
                   consumed, broke>>
    /\ MainFrame

\* a bug: the test of src 284-286 left out
breaks_on_stop_never(stop) == FALSE

\* src 284-286: "if stop_event.is_set(): break"
breaks_on_stop(stop) == stop

\* src 282-286: the next completed future, and the test of stop_event
LoopNext ==
    /\ mpc = "wait"
    /\ yieldq # <<>>
    /\ cur' = Head(yieldq)
    /\ yieldq' = Tail(yieldq)
    /\ i' = i + 1
    /\ broke' = (broke \/ stop_event)
    /\ mpc' = IF breaks_on_stop(stop_event) THEN "shutdown" ELSE "process"
    /\ UNCHANGED <<task, results, scraped_data, progress, comp_order, early, consumed>>
    /\ MainFrame

\* a bug: the "if data" test left out
keeps_record_always(res) == TRUE

\* src 289-291: "if data" of the future's result; an exception is no data
keeps_record(res) == res = "record"

\* a bug: progress_callback called only for a record
reports_progress_for_records(res) == res = "record"

\* src 300-304: the message is reported whatever the result was
reports_progress(res) == TRUE

\* a bug: the exception of a call not caught (src 297-298 left out); it leaves
\* the loop and the "with" block
after_result_raises(res) == IF res = "exc" THEN "shutdown" ELSE "wait"

\* src 288-304: whatever the result, the loop goes on to the next future
after_result(res) == "wait"

\* src 288-304: the result of the future is taken.  A record is appended to
\* results (src 291) and data_callback is called next; with anything else the
\* message is reported and the iteration ends.
LoopProcess ==
    /\ mpc = "process"
    /\ LET res == task[cur].res IN
       IF keeps_record(res)
       THEN /\ results' = Append(results, cur)
            /\ mpc' = "callback"
            /\ UNCHANGED progress
       ELSE /\ IF reports_progress(res)
               THEN progress' = Append(progress, [i |-> i, total |-> total,
                                                  kind |-> res, url |-> cur])
               ELSE UNCHANGED progress
            /\ mpc' = after_result(res)
            /\ UNCHANGED results
    /\ consumed' = Append(consumed, cur)
    /\ UNCHANGED <<task, yieldq, cur, i, scraped_data, comp_order, early, broke>>
    /\ MainFrame

\* src 293-294 and 580-582: data_callback takes data_lock, appends and releases
\* it; then the message is reported (src 300-304) and the iteration ends
DataCallback ==
    /\ mpc = "callback"
    /\ data_lock = "free"
    /\ scraped_data' = Append(scraped_data, cur)
    /\ LET res == task[cur].res IN
       /\ IF reports_progress(res)
          THEN progress' = Append(progress, [i |-> i, total |-> total,
                                             kind |-> res, url |-> cur])
          ELSE UNCHANGED progress
       /\ mpc' = after_result(res)
    /\ UNCHANGED <<task, yieldq, cur, i, results, comp_order, early, consumed, broke>>
    /\ MainFrame

\* as_completed has yielded every future: the loop ends
LoopEnd ==
    /\ mpc = "wait"
    /\ Len(consumed) = total
    /\ mpc' = "shutdown"
    /\ UNCHANGED <<task, yieldq, cur, i, results, scraped_data, progress, comp_order,
                   early, consumed, broke>>
    /\ MainFrame

\* the end of the "with" block (src 274) waits for every call, queued ones
\* included; then src 306 returns
ScrapeAllUrlsReturn ==
    /\ mpc = "shutdown"
    /\ \A t \in Tasks : Done(t)
    /\ mpc' = "returned"
    /\ UNCHANGED <<task, yieldq, cur, i, results, scraped_data, progress, comp_order,
                   early, consumed, broke>>
    /\ MainFrame

(***************************************************************************)
(* Specification Spec: one call of scrape_all_urls, with the GUI thread    *)
(* free to pause, resume and stop at any time.                             *)
(***************************************************************************)
CrawlStart ==
    /\ limit = 0
    /\ urls = <<>>
    /\ last_add = NoCall
    /\ DiscoveryIdle
    /\ task = [t \in Tasks |-> NewTask]
    /\ mpc = "idle"
    /\ yieldq = <<>>
    /\ cur = 0
    /\ i = 0
    /\ results = <<>>
    /\ scraped_data = <<>>
    /\ progress = <<>>
    /\ comp_order = <<>>
    /\ early = {}
    /\ consumed = <<>>
    /\ broke = FALSE

Init ==
    /\ phase = "crawl"
    /\ GuiFresh
    /\ EventsClear
    /\ total \in 0..MaxTasks
    /\ workers \in 1..MaxWorkers
    /\ js_enabled \in BOOLEAN
    /\ CrawlStart

Next ==
    \/ ScrapeAllUrlsCall
    \/ AsCompletedStart
    \/ LoopNext
    \/ LoopProcess
    \/ DataCallback
    \/ LoopEnd
    \/ ScrapeAllUrlsReturn
    \/ \E t \in Tasks : scrape_content(t)
    \/ OnPause
    \/ OnStop

Spec == Init /\ [][Next]_vars

(***************************************************************************)
(* ScraperGUI (src 309-731).  The handlers of the buttons are run one at a *)
(* time by the Tk main loop; on_save and on_export_json stay in their file *)
(* dialog until the user answers it.  on_start creates the thread that     *)
(* runs background_task; get_allowed_urls is taken there by the number of  *)
(* URLs it returns (its walk is the matter of SpecDiscovery).              *)
(***************************************************************************)
\* the values the entry fields can hold when on_start reads them
Delays == {-1, 0}
Limits == {-1, 0}
WorkerCounts == 0..MaxGuiWorkers
JsChoices == {FALSE}

\* a bug: the test of src 538-540 left out
start_error_workers_unchecked(empty, min_delay, max_delay, w, lim) ==
    IF empty THEN "entry"
    ELSE IF min_delay < 0 \/ max_delay < min_delay THEN "delay"
    ELSE IF lim < 0 THEN "limit"
    ELSE "none"

\* src 532-543: the first test that fails gives the message
start_error(empty, min_delay, max_delay, w, lim) ==
    IF empty THEN "entry"
    ELSE IF min_delay < 0 \/ max_delay < min_delay THEN "delay"
    ELSE IF w < 1 THEN "workers"
    ELSE IF lim < 0 THEN "limit"
    ELSE "none"

\* a bug: the button left enabled during the run
state_during_run_normal == "normal"

\* src 551: start_button.config(state="disabled")
state_during_run == "disabled"

\* a bug: the command of a disabled button still runs
clickable_always(state) == TRUE

\* src 551, 606: Tk runs the command of a button only in state "normal"
clickable(state) == state = "normal"

\* a bug: the list of the previous run kept
cleared_kept(data) == data

\* src 518-519: self.scraped_data = []
cleared(data) == <<>>

GuiFrame == UNCHANGED <<collectorVars, discoveryVars, phase>>

\* on_start (src 499-610)
OnStart ==
    /\ phase = "gui"
    /\ gpc = "idle"
    /\ clickable(start_button)
    /\ data_lock = "free"
    /\ \E empty \in BOOLEAN, min_delay \in Delays, max_delay \in Delays,
          w \in WorkerCounts, lim \in Limits, js \in JsChoices :
         LET err == start_error(empty, min_delay, max_delay, w, lim) IN
         /\ pause_event' = FALSE
         /\ stop_event' = FALSE
         /\ is_paused' = FALSE
         /\ at_stop' = NoStop
         /\ scraped_data' = cleared(scraped_data)
         /\ last_start' = [called |-> TRUE, empty |-> empty, min_delay |-> min_delay,
                           max_delay |-> max_delay, workers |-> w, limit |-> lim,
                           error |-> err]
         /\ IF err # "none"
            THEN UNCHANGED <<start_button, bpc, csv, total, workers, js_enabled, task,
                             mpc, yieldq, cur, i, results, progress, comp_order, early,
                             consumed, broke>>
            ELSE /\ start_button' = state_during_run
                 /\ bpc' = "discover"
                 /\ csv' = NoCsv
                 /\ workers' = w
                 /\ js_enabled' = js
                 /\ total' = 0
                 /\ task' = <<>>
                 /\ mpc' = "idle"
                 /\ yieldq' = <<>>
                 /\ cur' = 0
                 /\ i' = 0
                 /\ results' = <<>>
                 /\ progress' = <<>>
                 /\ comp_order' = <<>>
                 /\ early' = {}
                 /\ consumed' = <<>>
                 /\ broke' = FALSE
    /\ UNCHANGED <<gpc, data_lock>>
    /\ GuiFrame

\* background_task, src 559-569: get_allowed_urls has returned n URLs
BgDiscover ==
    /\ bpc = "discover"
    /\ \E n \in 0..MaxGuiUrls :
         /\ total' = n
         /\ task' = [t \in 1..n |-> NewTask]
         /\ bpc' = IF n = 0 THEN "finally" ELSE "crawl"
    /\ UNCHANGED <<start_button, gpc, data_lock, csv, last_start, eventVars, workers,
                   js_enabled, mpc, yieldq, cur, i, results, scraped_data,
                   progress, comp_order, early, consumed, broke>>
    /\ GuiFrame

\* a bug: the results written whether or not stop_event is set
saves_results_always(stop) == TRUE

\* src 598: "if not self.stop_event.is_set()"
saves_results(stop) == ~stop

\* background_task, src 597-602: scrape_all_urls has returned
BgSave ==
    /\ bpc = "crawl"
    /\ mpc = "returned"
    /\ csv' = IF saves_results(stop_event)
              THEN [written |-> TRUE, rows |-> results]
              ELSE csv
    /\ bpc' = "finally"
    /\ UNCHANGED <<start_button, gpc, data_lock, last_start, eventVars, crawlVars>>
    /\ GuiFrame

\* background_task, src 604-606: the button is enabled again, the thread ends
\* and its locals with it
BgFinally ==
    /\ bpc = "finally"
    /\ start_button' = "normal"
    /\ bpc' = "none"
    /\ total' = 0
    /\ task' = <<>>
    /\ mpc' = "idle"
    /\ yieldq' = <<>>
    /\ cur' = 0
    /\ i' = 0
    /\ results' = <<>>
    /\ progress' = <<>>
    /\ comp_order' = <<>>
    /\ early' = {}
    /\ consumed' = <<>>
    /\ broke' = FALSE
    /\ UNCHANGED <<gpc, data_lock, csv, last_start, eventVars, workers, js_enabled,
                   scraped_data>>
    /\ GuiFrame

HandlerFrame ==
    /\ UNCHANGED <<start_button, bpc, csv, last_start, eventVars, crawlVars>>
    /\ GuiFrame

\* on_save, src 651-656: data_lock is taken, there is data, the dialog opens.
\* (Without data the handler logs and returns.)
OnSave ==
    /\ phase = "gui"
    /\ gpc = "idle"
    /\ data_lock = "free"
    /\ scraped_data # <<>>
    /\ data_lock' = "gui"
    /\ gpc' = "save_dialog"
    /\ HandlerFrame

\* on_save, src 656-663: the dialog is answered; with a file name the list is
\* copied; the lock is released either way
OnSaveDialog ==
    /\ gpc = "save_dialog"
    /\ \E chosen \in BOOLEAN : gpc' = IF chosen THEN "save_write" ELSE "idle"
    /\ data_lock' = "free"
    /\ HandlerFrame

\* on_save, src 664-669: the copy is written
OnSaveWrite ==
    /\ gpc = "save_write"
    /\ gpc' = "idle"
    /\ UNCHANGED data_lock
    /\ HandlerFrame

\* on_export_json, src 702-711: the test of the list under data_lock; the lock
\* is released before the dialog opens
OnExportJson ==
    /\ phase = "gui"
    /\ gpc = "idle"
    /\ data_lock = "free"
    /\ scraped_data # <<>>
    /\ gpc' = "export_dialog"
    /\ UNCHANGED data_lock
    /\ HandlerFrame

\* on_export_json, src 708-720: the dialog is answered; with a file name
\* json.dump starts to read self.scraped_data
OnExportDialog ==
    /\ gpc = "export_dialog"
    /\ \E chosen \in BOOLEAN : gpc' = IF chosen THEN "export_dump" ELSE "idle"
    /\ UNCHANGED data_lock
    /\ HandlerFrame

\* on_export_json, src 720-723: json.dump has read the list to its end
OnExportDump ==
    /\ gpc = "export_dump"
    /\ gpc' = "idle"
    /\ UNCHANGED data_lock
    /\ HandlerFrame

(***************************************************************************)
(* Specification SpecGui: the window from its construction on, with every  *)
(* button pressed at any time.                                             *)
(***************************************************************************)
InitGui ==
    /\ phase = "gui"
    /\ GuiFresh
    /\ EventsClear
    /\ limit = 0
    /\ urls = <<>>
    /\ last_add = NoCall
    /\ DiscoveryIdle
    /\ CrawlIdle

NextGui ==
    \/ OnStart
    \/ BgDiscover
    \/ BgSave
    \/ BgFinally
    \/ OnSave
    \/ OnSaveDialog
    \/ OnSaveWrite
    \/ OnExportJson
    \/ OnExportDialog
    \/ OnExportDump
    \/ Next

SpecGui == InitGui /\ [][NextGui]_vars

\* the steps of the thread that runs background_task
BackgroundThread ==
    \/ BgDiscover
    \/ ScrapeAllUrlsCall
    \/ AsCompletedStart
    \/ LoopNext
    \/ LoopProcess
    \/ DataCallback
    \/ LoopEnd
    \/ ScrapeAllUrlsReturn
    \/ BgSave
    \/ BgFinally

\* the step of the pool thread that runs the call of URL t
WorkerThread(t) == t \in DOMAIN task /\ scrape_content(t)

\* Every thread of the program that can take a step takes one: discovery ends,
\* a fetch is answered, a sleep returns, and a thread that waits for data_lock
\* gets it when it is released again and again.  Nothing is asked of the user:
\* no button need be pressed, no dialog answered.
SpecGuiFair ==
    /\ InitGui
    /\ [][NextGui]_vars
    /\ SF_vars(BackgroundThread)
    /\ \A t \in 1..MaxGuiUrls : WF_vars(WorkerThread(t))

(***************************************************************************)
(* Specification SpecExtract: one call of scrape_content, run by a pool of *)
(* one worker, begun with the events in any state; what the call sees of   *)
(* pause_event is recorded.                                                *)
(***************************************************************************)
InitExtract ==
    /\ phase = "extract"
    /\ GuiFresh
    /\ pause_event \in BOOLEAN
    /\ is_paused = pause_event
    /\ stop_event \in BOOLEAN
    /\ at_stop = NoStop
    /\ total = 1
    /\ workers = 1
    /\ js_enabled \in BOOLEAN
    /\ CrawlStart

SpecExtract == InitExtract /\ [][Next]_vars

\* a worker thread of the pool that can take a step takes it: the sleep of
\* src 152 and 232 returns, a fetch is answered (or times out, src 163)
SpecExtractFair ==
    InitExtract /\ [][Next]_vars /\ WF_vars(\E t \in Tasks : scrape_content(t))

(***************************************************************************)
(* Specification SpecDiscovery: one call of get_allowed_urls on a sitemap  *)
(* graph, or on a single URL.                                              *)
(***************************************************************************)
InitDiscovery ==
    /\ phase = "discovery"
    /\ limit \in 0..MaxLimit
    /\ urls = <<>>
    /\ last_add = NoCall
    /\ disallowed \in DisallowedLists
    /\ \/ entry = Root /\ web \in Webs
       \/ entry \in SingleEntries /\ web \in {EmptyWeb, [EmptyWeb EXCEPT ![UpperPage] = FailDoc]}
    /\ stack = <<>>
    /\ fetched = <<>>
    /\ last_locs = <<>>
    /\ dpc = "start"
    /\ EventsClear
    /\ CrawlIdle
    /\ GuiFresh

NextDiscovery ==
    \/ GetAllowedUrlsCall
    \/ SitemapEnter
    \/ SitemapLoop
    \/ GetAllowedUrlsReturn

SpecDiscovery == InitDiscovery /\ [][NextDiscovery]_vars

(***************************************************************************)
(* Specification SpecCycle: one call of get_allowed_urls on sitemap graphs *)
(* in which an index can list itself or one of its ancestors.              *)
(***************************************************************************)
CycleRootDocs ==
    {Doc("index", <<Root>>), Doc("index", <<K1, Root>>), Doc("index", <<K1, K2>>),
     Doc("index", <<K2, K1>>)}
CycleK1Docs == UrlSets("a") \cup {FailDoc, Doc("index", <<Root>>)}
CycleK2Docs == UrlSets("b") \cup {Doc("index", <<K2>>), Doc("index", <<K1, Root>>)}

CycleWebs ==
    {[u \in SitemapURLs |->
        CASE u = Root -> d0 [] u = K1 -> d1 [] u = K2 -> d2 [] OTHER -> OtherDoc] :
        d0 \in CycleRootDocs, d1 \in CycleK1Docs, d2 \in CycleK2Docs}

InitCycle ==
    /\ phase = "discovery"
    /\ limit \in 0..MaxLimit
    /\ urls = <<>>
    /\ last_add = NoCall
    /\ disallowed \in {<<>>, << <<"a">> >>}
    /\ entry = Root
    /\ web \in CycleWebs
    /\ stack = <<>>
    /\ fetched = <<>>
    /\ last_locs = <<>>
    /\ dpc = "start"
    /\ EventsClear
    /\ CrawlIdle
    /\ GuiFresh

SpecCycle == InitCycle /\ [][NextDiscovery]_vars

(***************************************************************************)
(* Specification SpecCollector: a URLCollector(limit) under an arbitrary   *)
(* sequence of add_urls calls.                                             *)
(***************************************************************************)
CollURLs == {<<"a", "1">>, <<"b", "1">>}
NewUrlLists == SeqsUpTo(CollURLs, MaxNew)

URLCollector_init ==
    /\ limit \in -1..MaxLimit
    /\ urls = <<>>
    /\ last_add = NoCall

InitCollector ==
    /\ phase = "collector"
    /\ URLCollector_init
    /\ DiscoveryIdle
    /\ EventsClear
    /\ CrawlIdle
    /\ GuiFresh

AddUrlsCall ==
    /\ phase = "collector"
    /\ \E new_urls \in NewUrlLists :
         /\ limit <= 0 => Len(urls) + Len(new_urls) <= MaxUrls
         /\ CollectorAdd(new_urls)
    /\ UNCHANGED <<phase, discoveryVars, eventVars, crawlVars, guiVars>>

NextCollector == AddUrlsCall

SpecCollector == InitCollector /\ [][NextCollector]_vars

(***************************************************************************)
(* Properties of URLCollector, checked under SpecCollector.                *)
(***************************************************************************)

\* C1: with limit > 0, after every add_urls call of every call sequence,
\* len(urls) <= limit.
C1_LimitNeverExceeded == limit > 0 => Len(urls) <= limit

\* a call that had to truncate its argument has been made, and filled the collector
C1_Witness ==
    /\ limit > 0
    /\ last_add.called
    /\ Len(last_add.pre) > 0
    /\ Len(last_add.arg) > limit - Len(last_add.pre)
    /\ Len(urls) = limit

\* C2: with limit > 0, from a state where len(urls) = limit every add_urls call,
\* whatever its argument, leaves urls unchanged and returns False.
C2_FullCollectorIsFrozen ==
    [][(limit > 0 /\ Len(urls) = limit)
         => (urls' = urls /\ (last_add' # last_add => ~last_add'.ret))]_vars

\* a call with a non-empty argument was made on a full collector
C2_Witness ==
    /\ limit > 0
    /\ last_add.called
    /\ Len(last_add.pre) = limit
    /\ Len(last_add.arg) > 0
    /\ urls = last_add.pre
    /\ ~last_add.ret

\* C3: with limit = 0 every add_urls call appends its whole argument, in order, and
\* returns True, whatever calls came before.
C3_UnlimitedAppendsAll ==
    (limit = 0 /\ last_add.called)
        => (urls = last_add.pre \o last_add.arg /\ last_add.ret)

\* a non-empty list was appended to a collector that already held URLs
C3_Witness ==
    /\ limit = 0
    /\ last_add.called
    /\ Len(last_add.pre) >= 2
    /\ Len(last_add.arg) >= 2
    /\ Len(urls) = Len(last_add.pre) + Len(last_add.arg)

\* C19: with limit > 0, whenever add_urls returns True room remains in the
\* collector: len(urls) < limit after the call.
C19_Original ==
    (limit > 0 /\ last_add.called /\ last_add.ret) => Len(urls) < limit

(***************************************************************************)
(* Properties of the sitemap resolution, checked under SpecDiscovery.      *)
(* What the resolution is expected to yield is computed here from the web  *)
(* itself, by a depth-first walk that knows no limit.                      *)
(***************************************************************************)

\* fragment f occurs in u between some two positions
OccursIn(f, u) == \E a \in 1..(Len(u) + 1), b \in 0..Len(u) : SubSeq(u, a, b) = f

HasDisallowedFragment(u) == \E k \in 1..Len(disallowed) : OccursIn(disallowed[k], u)

Clean(locs) == SelectSeq(locs, LAMBDA u : ~HasDisallowedFragment(u))

RECURSIVE Walk(_), WalkTags(_, _)
\* the GETs of a walk without limit from sitemap u, in order, each with the page
\* URLs it yields
Walk(u) ==
    LET d == web[u] IN
    CASE d.kind = "index" -> <<[url |-> u, gain |-> <<>>]>> \o WalkTags(d.items, 1)
      [] d.kind = "urlset" -> <<[url |-> u, gain |-> Clean(d.items)]>>
      [] OTHER -> <<[url |-> u, gain |-> <<>>]>>

WalkTags(tags, p) ==
    IF p > Len(tags) THEN <<>>
    ELSE (IF tags[p] = NoLoc THEN <<>> ELSE Walk(tags[p])) \o WalkTags(tags, p + 1)

RECURSIVE Gains(_, _)
\* the page URLs yielded by the first k GETs of walk w
Gains(w, k) == IF k = 0 THEN <<>> ELSE Gains(w, k - 1) \o w[k].gain

\* the least number of GETs of walk w after which lim URLs are there (all of them
\* when they never are)
MinimalFetchCount(w, lim) ==
    LET enough == {k \in 1..Len(w) : Len(Gains(w, k)) >= lim} IN
    IF enough = {} THEN Len(w) ELSE CHOOSE k \in enough : \A m \in enough : k <= m

FetchedUrls == [p \in 1..Len(fetched) |-> fetched[p].url]

IsPrefix(s, t) == Len(s) <= Len(t) /\ s = SubSeq(t, 1, Len(s))

\* C4: with limit > 0, no GET of a sitemap is issued while the collector already
\* holds limit URLs, and the GETs issued are exactly the first ones of the
\* depth-first walk, as many as are needed to reach the limit.
C4_MinimalFetches ==
    (limit > 0 /\ entry = Root) =>
        LET w == Walk(Root)
            need == SubSeq([p \in 1..Len(w) |-> w[p].url], 1, MinimalFetchCount(w, limit))
        IN
        /\ \A p \in 1..Len(fetched) : fetched[p].have < limit
        /\ IsPrefix(FetchedUrls, need)
        /\ dpc = "done" => FetchedUrls = need

\* the resolution ended early: three GETs or more were made, and the walk had more
C4_Witness ==
    /\ dpc = "done"
    /\ entry = Root
    /\ limit > 0
    /\ web[Root].kind = "index"
    /\ Len(urls) = limit
    /\ Len(fetched) >= 3
    /\ Len(fetched) < Len(Walk(Root))

AllFetchesSucceed ==
    /\ web[Root].kind = "index"
    /\ \A u \in {K1, K2, K3} : web[u].kind \in {"index", "urlset"}

\* C5: for a sitemap index over url-sets whose GETs all succeed, get_allowed_urls
\* returns the first limit elements (all when limit = 0 or fewer exist) of the
\* allowed URLs of the leaves, concatenated in depth-first document order.
C5_FirstAllowedInDocumentOrder ==
    (dpc = "done" /\ entry = Root /\ AllFetchesSucceed) =>
        LET w == Walk(Root)
            all == Gains(w, Len(w))
        IN
        urls = IF limit > 0 /\ limit < Len(all) THEN SubSeq(all, 1, limit) ELSE all

\* the scenario of the specification: two leaves of 3 URLs, one URL of leaf A
\* disallowed, limit 4
C5_Witness ==
    /\ dpc = "done"
    /\ entry = Root
    /\ limit = 4
    /\ web[Root] = Doc("index", <<K1, K2>>)
    /\ web[K1] = Doc("urlset", LeafLocs("a", 3))
    /\ web[K2] = Doc("urlset", LeafLocs("b", 3))
    /\ disallowed = << <<"a", "2">> >>
    /\ urls = << <<"a", "1">>, <<"a", "3">>, <<"b", "1">>, <<"b", "2">> >>

\* C6: on the url-set path and on the single-URL path, no URL that contains a
\* disallowed fragment enters the collector, and the filter removes no URL that
\* contains none.
C6_DisallowedFiltered ==
    /\ \A p \in 1..Len(urls) : ~HasDisallowedFragment(urls[p])
    /\ (entry = Root /\ last_add.called) => last_add.arg = Clean(last_locs)
    /\ (dpc = "done" /\ entry \in {<<"a", "1">>, <<"b", "2">>}) =>
           urls = IF HasDisallowedFragment(entry) THEN <<>> ELSE <<entry>>

\* a url-set of which the filter removed some URLs and kept others
C6_Witness ==
    /\ dpc = "done"
    /\ entry = Root
    /\ last_add.called
    /\ Len(last_locs) = 3
    /\ Len(last_add.arg) = 2
    /\ Len(urls) >= 2

(***************************************************************************)
(* Properties of scrape_content and scrape_all_urls, checked under Spec    *)
(* and SpecExtract.                                                        *)
(***************************************************************************)

\* C7: a scrape_content call that begins while stop_event is set makes no network
\* call, neither a GET nor a browser render, and returns an empty record at once.
C7_StoppedCallDoesNothing ==
    \A t \in Tasks :
        task[t].entry_stop =>
            (task[t].pc = "done" /\ task[t].res = "empty" /\ task[t].net = "none")

\* mid-crawl: one call has asked for its page, a later one began after the stop
C7_Witness ==
    \E t, u \in Tasks :
        /\ task[t].entry_stop
        /\ task[t].pc = "done"
        /\ task[t].res = "empty"
        /\ task[u].net # "none"

\* C8: a scrape_content call that begins while pause_event is set makes no network
\* call for as long as pause_event stays set, returns a record only after
\* pause_event has been cleared, and, when pause_event is cleared and not set
\* again, has made its network call with pause_event clear.
C8_PausedCallWaits ==
    \A t \in Tasks :
        /\ task[t].hist = "held" => (task[t].net = "none" /\ task[t].res # "record")
        /\ task[t].hist = "cleared" => ~task[t].net_paused

\* a call that began paused has returned a record after the pause was cleared
C8_Witness ==
    \E t \in Tasks :
        /\ task[t].hist = "cleared"
        /\ task[t].net # "none"
        /\ task[t].res = "record"

\* C9 (as amended): the progress notifications are numbered 1, 2, ... in order,
\* each with total = N; there are N of them when the loop never finds stop_event
\* set, and fewer than N when it leaves through the break.
C9_ProgressNumbered ==
    /\ \A k \in 1..Len(progress) : progress[k].i = k /\ progress[k].total = total
    /\ Len(progress) <= total
    /\ mpc = "returned" =>
          IF broke THEN Len(progress) < total ELSE Len(progress) = total

\* a crawl of two URLs or more on two workers or more that was not stopped, with a
\* notification for a call that gave no record
C9_Witness ==
    /\ mpc = "returned"
    /\ ~broke
    /\ total >= 2
    /\ workers >= 2
    /\ Len(progress) = total
    /\ \E k \in 1..Len(progress) : progress[k].kind # "record"

\* C9 as stated: every run of scrape_all_urls over N URLs makes exactly N progress
\* notifications, numbered 1..N in order, each with total = N.
C9_Original ==
    mpc = "returned" =>
        /\ Len(progress) = total
        /\ \A k \in 1..Len(progress) : progress[k].i = k /\ progress[k].total = total

HasRecord(t) == task[t].res = "record"

Pos(q, t) == CHOOSE k \in 1..Len(q) : q[k] = t

\* C10 (as amended): the returned list holds exactly the records of the futures
\* whose result the loop handled, one per URL, in the order the loop handled them:
\* the order of completion, except among the futures already finished when
\* as_completed started.  A call that gave no record or raised adds nothing.  The
\* length is at most the number of URLs whose extraction succeeded, and equals it
\* when the loop did not leave through the break.
C10_ResultsAreHandledRecords ==
    /\ results = SelectSeq(consumed, HasRecord)
    /\ \A a, b \in 1..Len(consumed) : consumed[a] = consumed[b] => a = b
    /\ \A a, b \in 1..Len(results) :
          a < b => \/ Pos(comp_order, results[a]) < Pos(comp_order, results[b])
                   \/ {results[a], results[b]} \subseteq early
    /\ Len(results) <= Cardinality({t \in Tasks : HasRecord(t)})
    /\ (mpc = "returned" /\ ~broke) =>
          Len(results) = Cardinality({t \in Tasks : HasRecord(t)})

\* a crawl that was not stopped returned one record and left out a call without one
C10_Witness ==
    /\ mpc = "returned"
    /\ ~broke
    /\ total >= 2
    /\ Len(results) = 1
    /\ \E t \in Tasks : task[t].res \in {"empty", "exc"}

\* C10 as stated: the returned list holds the records of the handled futures in the
\* order those calls completed, and its length is the number of URLs whose
\* extraction succeeded.
C10_Original ==
    mpc = "returned" =>
        /\ results = SelectSeq(comp_order,
                               LAMBDA t : HasRecord(t) /\ \E k \in 1..Len(consumed) : consumed[k] = t)
        /\ Len(results) = Cardinality({t \in Tasks : HasRecord(t)})

\* C11: once stop has been asked for, the records returned are no more than the URLs
\* whose fetch had been answered at that moment, and no record is returned or
\* streamed for a URL whose fetch had not started by then.
C11_StopBoundsRecords ==
    at_stop.asked =>
        /\ Len(results) <= Cardinality(at_stop.answered)
        /\ \A k \in 1..Len(results) : results[k] \in at_stop.started
        /\ \A k \in 1..Len(scraped_data) : scraped_data[k] \in at_stop.started

\* the stop came mid-crawl: one fetch had been answered and its record is returned,
\* another was still unanswered and its URL gave no record; the run has returned
C11_Witness ==
    /\ at_stop.asked
    /\ mpc = "returned"
    /\ Len(results) >= 1
    /\ at_stop.started # at_stop.answered
    /\ \A t \in at_stop.started \ at_stop.answered : ~HasRecord(t)

C16_FailedNodeIsSkipped ==
    entry = Root =>
        LET w == Walk(Root)
            all == Gains(w, Len(w))
        IN
        /\ \A p \in 1..Len(fetched) :
              web[fetched[p].url].kind = "fail" =>
                  fetched[p].have = IF p < Len(fetched) THEN fetched[p + 1].have
                                    ELSE Len(urls)
        /\ dpc = "done" =>
              IF limit > 0 /\ limit <= Len(all)
              THEN urls = SubSeq(all, 1, limit)
              ELSE /\ urls = all
                   /\ FetchedUrls = [p \in 1..Len(w) |-> w[p].url]

\* the first sub-sitemap of the index failed, the second gave its three URLs
C16_Witness ==
    /\ dpc = "done"
    /\ entry = Root
    /\ limit = 0
    /\ disallowed = <<>>
    /\ web[Root] = Doc("index", <<K1, K2>>)
    /\ web[K1] = FailDoc
    /\ web[K2] = Doc("urlset", LeafLocs("b", 3))
    /\ FetchedUrls = <<Root, K1, K2>>
    /\ urls = LeafLocs("b", 3)

\* C17: a call whose fetch failed (it returns {}) or that raised does not end the
\* loop: without a stop, scrape_all_urls handles and reports the completion of
\* every URL, and the failed URL gets its message and no record.
C17_FailuresDoNotAbort ==
    (mpc = "returned" /\ ~stop_event) =>
        /\ Len(consumed) = total
        /\ Len(progress) = total
        /\ \A t \in Tasks :
              /\ \E k \in 1..Len(progress) :
                    progress[k].url = t /\ progress[k].kind = task[t].res
              /\ task[t].res \in {"empty", "exc"} =>
                    /\ \A k \in 1..Len(results) : results[k] # t
                    /\ \A k \in 1..Len(scraped_data) : scraped_data[k] # t

\* the call handled first had raised; the other URL was still handled and its
\* record returned
C17_Witness ==
    /\ mpc = "returned"
    /\ ~stop_event
    /\ \E t, u \in Tasks :
          /\ consumed = <<t, u>>
          /\ task[t].res = "exc"
          /\ task[u].res = "record"
          /\ results = <<u>>

(***************************************************************************)
(* Properties of the window, checked under SpecGui.                        *)
(***************************************************************************)

\* C13: within a crawl run, once stop_event is set no handler (on_start, on_pause,
\* on_stop) clears it before every call of the run has returned and
\* background_task has ended.
C13_StopStaysSetInRun ==
    [][(stop_event /\ bpc # "none") => stop_event']_vars

\* stop was set while a fetch was under way, and the run has come to its end with
\* the event still set
C13_Witness ==
    /\ bpc = "finally"
    /\ stop_event
    /\ broke
    /\ at_stop.started # {}

\* C14: every access to self.scraped_data is made while holding data_lock, so no
\* export reads the list while the crawl appends to it.
C14_Original ==
    [][/\ gpc \in {"save_dialog", "export_dump"} => data_lock = "gui"
       /\ gpc = "export_dump" => scraped_data' = scraped_data]_vars

\* C15 as stated: every crawl that ends, by taking all completions or by a stop, is
\* followed by the writing of its records to the CSV file.
C15_Original ==
    (bpc = "finally" /\ total > 0) => (csv.written /\ csv.rows = results)

\* C15: a crawl over at least one URL during which no stop was asked for is followed
\* by the writing of the returned records to the CSV file; a crawl whose loop a stop
\* ended, and a run that found no URL, are followed by no writing.
C15_SavedUnlessStopped ==
    bpc = "finally" =>
        /\ (total = 0 \/ broke) => ~csv.written
        /\ (total > 0 /\ ~at_stop.asked) => (csv.written /\ csv.rows = results)

\* a stop ended the loop after a record had been returned: nothing is written
C15_Witness ==
    /\ bpc = "finally"
    /\ broke
    /\ results # <<>>
    /\ ~csv.written

\* C18: when on_start reads an empty entry point, min delay < 0, max delay < min
\* delay, workers < 1 or limit < 0, it logs an error and starts nothing: no thread,
\* no discovery, no call of scrape_content.
C18_InvalidStartStartsNothing ==
    LET invalid == \/ last_start.empty
                   \/ last_start.min_delay < 0
                   \/ last_start.max_delay < last_start.min_delay
                   \/ last_start.workers < 1
                   \/ last_start.limit < 0
    IN  (last_start.called /\ invalid) =>
            /\ last_start.error # "none"
            /\ bpc = "none"
            /\ start_button = "normal"
            /\ task = <<>>
            /\ mpc = "idle"

\* on_start read workers = 0 with every other value valid
C18_Witness ==
    /\ last_start.called
    /\ ~last_start.empty
    /\ last_start.min_delay = 0
    /\ last_start.max_delay = 0
    /\ last_start.limit = 0
    /\ last_start.workers < 1
    /\ last_start.error = "workers"
    /\ bpc = "none"

(***************************************************************************)
(* Progress of one call under pause and stop, checked under                *)
(* SpecExtractFair.                                                        *)
(***************************************************************************)
InPauseLoop(t) == t \in DOMAIN task /\ task[t].pc \in {"s151", "s153", "s231", "s233"}

ReturnedEmpty(t) ==
    t \in DOMAIN task /\ task[t].pc = "done" /\ task[t].res = "empty"

\* C20: a call that is in one of its two pause loops with pause_event set, once
\* stop_event is set and for as long as pause_event stays set, makes no further
\* fetch, stays in the loop or returns, and does return {}.
C20_PausedCallStops ==
    /\ \A t \in 1..MaxTasks :
          (InPauseLoop(t) /\ pause_event /\ stop_event)
              ~> (~pause_event \/ ReturnedEmpty(t))
    /\ [][\A t \in 1..MaxTasks :
             (InPauseLoop(t) /\ pause_event /\ stop_event /\ pause_event') =>
                 /\ task'[t].net = task[t].net
                 /\ task'[t].pc \in {"s151", "s153", "s231", "s233", "done"}
                 /\ task'[t].pc = "done" => task'[t].res = "empty"]_vars

\* the call had its page, was held in the second pause loop, and returned {} from
\* the test of src 233 with both events set
C20_Witness ==
    /\ pause_event
    /\ stop_event
    /\ task[1].pc = "done"
    /\ task[1].left = "s233"
    /\ task[1].res = "empty"
    /\ task[1].net # "none"

\* C21: data_lock is held only for the clearing, the append or the copy of
\* self.scraped_data: never while a file dialog is open or a file is written, so
\* data_callback never waits behind a save or an export.
C21_Original ==
    /\ data_lock # "free" =>
          gpc \notin {"save_dialog", "save_write", "export_dialog", "export_dump"}
    /\ ~(mpc = "callback" /\ data_lock # "free")

\* C22: at most workers calls of scrape_content run at a time; every URL of the
\* list has exactly one call, which asks for its page at most once and completes
\* once, and when scrape_all_urls returns every call has been run.
C22_PoolAndDispatch ==
    /\ Cardinality({t \in DOMAIN task : Running(t)}) <= workers
    /\ DOMAIN task = 1..total
    /\ \A t \in DOMAIN task :
          /\ task[t].tries <= 1
          /\ task[t].net # "none" <=> task[t].tries = 1
    /\ \A a, b \in 1..Len(comp_order) : comp_order[a] = comp_order[b] => a = b
    /\ mpc = "returned" =>
          /\ \A t \in DOMAIN task : Done(t)
          /\ Len(comp_order) = total

\* more URLs than workers: one call has had its page and is still running, the
\* next one waits in the queue
C22_Witness ==
    /\ workers = 1
    /\ total = 2
    /\ \E t, u \in Tasks :
          /\ Running(t)
          /\ task[t].tries = 1
          /\ task[u].pc = "queued"

\* C25 as stated: at every point of a crawl self.scraped_data equals the
\* results list of scrape_all_urls.
C25_Original == bpc = "crawl" => scraped_data = results

\* C25: during a run self.scraped_data equals the results list, element for
\* element, except between results.append and the end of data_callback, where
\* it lacks that one last record; nothing of an earlier run is in it.
C25_SinkFollowsResults ==
    bpc # "none" =>
        IF mpc = "callback"
        THEN results = Append(scraped_data, cur)
        ELSE scraped_data = results

\* the second record is in results and data_callback waits for data_lock, held by
\* on_save in its dialog
C25_Witness ==
    /\ bpc = "crawl"
    /\ mpc = "callback"
    /\ data_lock = "gui"
    /\ Len(results) = 2
    /\ Len(scraped_data) = 1

\* C24: while the thread started by on_start has not ended, the start button is
\* disabled and on_start does not run: no second run begins, the events are not
\* reset and self.scraped_data is not emptied.
C24_OneCrawlAtATime ==
    [][bpc # "none" =>
         /\ start_button = "disabled"
         /\ bpc' = "discover" => bpc = "discover"
         /\ last_start' = last_start
         /\ stop_event => stop_event'
         /\ IsPrefix(scraped_data, scraped_data')]_vars

\* a run is under way with a call running, both events set by the user and a
\* record in the list
C24_Witness ==
    /\ bpc = "crawl"
    /\ start_button = "disabled"
    /\ \E t \in Tasks : Running(t)
    /\ stop_event
    /\ pause_event
    /\ scraped_data # <<>>

(***************************************************************************)
(* Progress of a stopped run, checked under SpecGuiFair.                   *)
(***************************************************************************)

\* C26: once stop_event is set during a run, every call ends, scrape_all_urls
\* returns and the start button is enabled again, whatever pause_event is.
C26_Original ==
    (stop_event /\ bpc # "none") ~> (bpc = "none" /\ start_button = "normal")

(***************************************************************************)
(* Properties of the resolution of cyclic sitemap graphs, checked under    *)
(* SpecCycle.                                                              *)
(***************************************************************************)
\* the sitemaps an index lists
Lists(w, u) ==
    IF w[u].kind = "index"
    THEN {w[u].items[k] : k \in 1..Len(w[u].items)} \cap DOMAIN w
    ELSE {}

RECURSIVE ReachedIn(_, _, _)
\* the sitemaps reached from those of S by following at most n more listings
ReachedIn(w, S, n) ==
    IF n = 0 THEN S
    ELSE ReachedIn(w, S \cup UNION {Lists(w, u) : u \in S}, n - 1)

Below(w, u) == ReachedIn(w, Lists(w, u), Cardinality(DOMAIN w))

\* some index reachable from the entry point lists itself, directly or not
Cyclic(w) == \E u \in {Root} \cup Below(w, Root) : u \in Below(w, u)

\* C23 as stated: on a graph with a cycle the resolution never returns, whatever
\* the limit.
C23_Original == Cyclic(web) => dpc # "done"

\* C23: on a graph with a cycle the resolution returns only with limit > 0 and
\* limit URLs collected; with limit = 0, or when the turns of the cycle add no
\* URL, it never returns a list.
C23_ReturnsOnlyAtLimit ==
    (Cyclic(web) /\ dpc = "done") => (limit > 0 /\ Len(urls) = limit)

\* the index lists a url-set and itself: the url-set was collected at each turn
\* until the limit was reached, and the list returned holds a URL twice
C23_Witness ==
    /\ dpc = "done"
    /\ web[Root] = Doc("index", <<K1, Root>>)
    /\ web[K1].kind = "urlset"
    /\ limit > 0
    /\ Len(urls) = limit
    /\ \E a, b \in 1..Len(urls) : a # b /\ urls[a] = urls[b]
    /\ Len(fetched) >= 4

=============================================================================
